---- MODULE Spec2Model ----
(***************************************************************************)
(* A model of the wedding-site server (src/server.js): the request router, *)
(* the RSVP submit and list handlers over the JSON record store, the CORS  *)
(* preflight and the static file handler.                                  *)
(*                                                                         *)
(* Granularity: one action per callback the runtime runs to completion     *)
(* (the request callback, a 'data' event, the 'end' event, the completion  *)
(* callback of an fs.readFile).  The file read that fs.readFile performs   *)
(* in the background is a step of its own.  Each synchronous fs call       *)
(* (existsSync, readFileSync, writeFileSync) is one indivisible operation  *)
(* on the store file.                                                      *)
(*                                                                         *)
(* The hero slider of the page (src/public/assets/js/rsvp.js) is modelled  *)
(* beside it, with one action per click listener and interval callback.    *)
(* Server and page share no state: each specification moves one of them    *)
(* and leaves the other as it started.                                     *)
(***************************************************************************)
EXTENDS Integers, Sequences, FiniteSets, TLC

\* ------------------------------------------------------------- bounds ----
\* requests the model lets arrive in one behaviour
MaxReq == 3
\* the latest time the clock shows, in milliseconds
MaxClock == 1
\* the timers the page may set, the one set on load included
MaxTimers == 6

\* ------------------------------------------------- program constants ----
\* body.length > 1e6
BODY_CAP == 1000000

\* ------------------------------------------------------ JSON values ------
\* A JSON value, as JSON.parse returns it, is a tagged record.  An object is
\* a function from its keys to values; an array is a sequence.
Null == [t |-> "null"]
Num(n) == [t |-> "num", n |-> n]
Str(s) == [t |-> "str", s |-> s]
Arr(items) == [t |-> "arr", items |-> items]
Obj(f) == [t |-> "obj", f |-> f]

\* The text of a file or of a request body: either a JSON document written
\* with some indentation, or text that is no JSON document (the empty text
\* among them).
Doc(v, indent) == [k |-> "doc", v |-> v, indent |-> indent]
Junk(s) == [k |-> "junk", s |-> s]
EmptyText == Junk("")

\* JSON.parse(text): the value, or a SyntaxError.
JSONparse(text) ==
    IF text.k = "doc" THEN [ok |-> TRUE, v |-> text.v]
    ELSE [ok |-> FALSE, v |-> Null]

\* JSON.stringify(value, null, indent)
JSONstringify(v, indent) == Doc(v, indent)

\* ToBoolean of a JSON value, as `!data` and `x || []` evaluate it.
Truthy(v) ==
    CASE v.t = "null" -> FALSE
      [] v.t = "num" -> v.n # 0
      [] v.t = "str" -> v.s # ""
      [] OTHER -> TRUE

\* String.prototype.trim on the strings of the model: blanks stripped at
\* both ends.
RECURSIVE TrimStart(_)
TrimStart(s) ==
    IF Len(s) > 0 /\ SubSeq(s, 1, 1) = " " THEN TrimStart(SubSeq(s, 2, Len(s)))
    ELSE s
RECURSIVE TrimEnd(_)
TrimEnd(s) ==
    IF Len(s) > 0 /\ SubSeq(s, Len(s), Len(s)) = " "
    THEN TrimEnd(SubSeq(s, 1, Len(s) - 1))
    ELSE s
Trim(s) == TrimEnd(TrimStart(s))

\* new Date().toISOString() at `ms` milliseconds after the epoch (ms < 10).
ToISOString(ms) == "1970-01-01T00:00:00.00" \o ToString(ms) \o "Z"

\* ------------------------------------------------------ URLs and paths ---
\* A request URL is its path, a sequence of segments between slashes, and
\* its query string.  A segment is a sequence of parts separated by encoded
\* slashes (%2f); a part is a name, possibly with percent-encoded characters.
Url(segs, query) == [segs |-> segs, query |-> query]

\* new URL(req.url, base).pathname: the query is dropped and dot segments
\* are removed; a segment is a dot segment only as a whole, percent-encoded
\* dots included, and an encoded slash does not end a segment.
IsDoubleDot(seg) == Len(seg) = 1 /\ seg[1] \in {"..", "%2e%2e", ".%2e", "%2e."}
IsSingleDot(seg) == Len(seg) = 1 /\ seg[1] \in {".", "%2e"}
RECURSIVE RemoveDotSegments(_, _)
RemoveDotSegments(segs, out) ==
    IF segs = <<>> THEN out
    ELSE LET seg == Head(segs) IN
         RemoveDotSegments(Tail(segs),
            IF IsDoubleDot(seg)
            THEN (IF out = <<>> THEN out ELSE SubSeq(out, 1, Len(out) - 1))
            ELSE IF IsSingleDot(seg) THEN out
            ELSE Append(out, seg))
URLpathname(url) == RemoveDotSegments(url.segs, <<>>)

\* decodeURIComponent throws a URIError on a percent sign that begins no
\* escape sequence; new URL(...) leaves such a sign in the pathname.
MalformedPart(p) == p \in {"%", "%zz"}
URIError(segs) ==
    \E i \in 1..Len(segs) : \E j \in 1..Len(segs[i]) : MalformedPart(segs[i][j])

\* decodeURIComponent on one part of a segment.
DecodePart(p) ==
    CASE p = "%2e%2e" -> ".."
      [] p = "%2e" -> "."
      [] p = "%72svps" -> "rsvps"
      [] p = "%72svp" -> "rsvp"
      [] OTHER -> p
\* decodeURIComponent(parsedUrl.pathname), as the components between the
\* slashes of the decoded string: an encoded slash decodes to a slash.
RECURSIVE DecodeURIComponent(_)
DecodeURIComponent(segs) ==
    IF segs = <<>> THEN <<>>
    ELSE [i \in 1..Len(Head(segs)) |-> DecodePart(Head(segs)[i])]
         \o DecodeURIComponent(Tail(segs))

\* The string of an absolute path with the given components.
RECURSIVE JoinComps(_)
JoinComps(comps) ==
    IF comps = <<>> THEN ""
    ELSE "/" \o Head(comps) \o JoinComps(Tail(comps))
PathString(comps) == IF comps = <<>> THEN "/" ELSE JoinComps(comps)

\* const pathname = decodeURIComponent(parsedUrl.pathname)
PathnameComps(url) == DecodeURIComponent(URLpathname(url))
PathnameThrows(url) == URIError(URLpathname(url))
Pathname(url) == PathString(PathnameComps(url))

\* path.normalize on the components of an absolute path.
RECURSIVE Normalize(_, _)
Normalize(comps, out) ==
    IF comps = <<>> THEN out
    ELSE LET c == Head(comps) IN
         Normalize(Tail(comps),
            IF c = ".."
            THEN (IF out = <<>> THEN out ELSE SubSeq(out, 1, Len(out) - 1))
            ELSE IF c = "." \/ c = "" THEN out
            ELSE Append(out, c))

\* __dirname, the directory of server.js, and the paths derived from it.
DIRNAME == <<"app">>
PUBLIC_DIR_COMPS == Normalize(DIRNAME \o <<"public">>, <<>>)
PUBLIC_DIR == PathString(PUBLIC_DIR_COMPS)
RSVP_STORAGE == PathString(Normalize(DIRNAME \o <<"data", "rsvps.json">>, <<>>))

\* String.prototype.startsWith
StartsWith(s, prefix) ==
    Len(s) >= Len(prefix) /\ SubSeq(s, 1, Len(prefix)) = prefix

\* As RequestedComps, with no default document for the root.
RequestedCompsNoDefault(url) == PathnameComps(url)

\* requestedPath, then path.resolve(path.join(PUBLIC_DIR, requestedPath))
RequestedComps(url) ==
    IF Pathname(url) = "/" THEN <<"index.html">> ELSE PathnameComps(url)
ResolvedComps(url) == Normalize(PUBLIC_DIR_COMPS \o RequestedComps(url), <<>>)
ResolvedPath(url) == PathString(ResolvedComps(url))

\* The traversal guard: !resolvedPath.startsWith(PUBLIC_DIR)
Forbidden(url) == ~StartsWith(ResolvedPath(url), PUBLIC_DIR)

\* path.extname(filePath).toLowerCase() on the last component.
RECURSIVE LastDot(_, _)
LastDot(s, i) ==
    IF i = 0 THEN 0
    ELSE IF SubSeq(s, i, i) = "." THEN i ELSE LastDot(s, i - 1)
ExtName(comps) ==
    IF comps = <<>> THEN ""
    ELSE LET base == comps[Len(comps)]
             d == LastDot(base, Len(base))
         IN IF d <= 1 THEN "" ELSE SubSeq(base, d, Len(base))
ToLowerCase(s) == IF s = ".HTML" THEN ".html" ELSE s

getContentType(comps) ==
    LET ext == ToLowerCase(ExtName(comps)) IN
    CASE ext = ".html" -> "text/html; charset=utf-8"
      [] ext = ".css" -> "text/css; charset=utf-8"
      [] ext = ".js" -> "application/javascript; charset=utf-8"
      [] ext = ".json" -> "application/json; charset=utf-8"
      [] ext = ".png" -> "image/png"
      [] ext \in {".jpg", ".jpeg"} -> "image/jpeg"
      [] ext = ".svg" -> "image/svg+xml"
      [] ext = ".ico" -> "image/x-icon"
      [] OTHER -> "application/octet-stream"

\* The regular files of the deployment, besides the store file: the asset
\* root, a file beside it and a directory whose name begins like the asset
\* root's.  Every other path names a directory or nothing.
DiskFiles ==
    { "/app/public/index.html",
      "/app/public/assets/js/rsvp.js",
      "/app/public/INDEX.HTML",
      "/app/server.js",
      "/app/public-old/secret.txt" }
Bytes(path) == [k |-> "bytes", of |-> path]
Plain(s) == [k |-> "plain", s |-> s]
NoBody == [k |-> "none"]

\* ------------------------------------------------------ the requests ----
\* A request body: its text once complete, and the lengths of the chunks it
\* arrives in.
Submission(text, chunks) == [text |-> text, chunks |-> chunks]
NoSubmission == Submission(EmptyText, <<>>)

AdaDoc == Doc(Obj([name |-> Str(" Ada "), guests |-> Num(2)]), 0)
EveDoc == Doc(Obj([name |-> Str("Eve"), createdAt |-> Str("client")]), 0)
ZoeDoc == Doc(Obj([name |-> Str("Zoe"), message |-> Str("long")]), 0)

\* Bodies that are no JSON, JSON without a usable name, and valid ones; two
\* bodies that grow past the cap, with their last chunk and before it.
Submissions ==
    { Submission(Junk("{name:"), <<6>>),
      Submission(Doc(Obj(<<>>), 0), <<2>>),
      Submission(Doc(Obj([name |-> Str("  ")]), 0), <<13>>),
      Submission(AdaDoc, <<28>>),
      Submission(EveDoc, <<20, 20>>),
      Submission(ZoeDoc, <<1000000, 1>>),
      Submission(ZoeDoc, <<1000000, 1, 1>>) }

RsvpUrl == Url(<< <<"rsvp">> >>, "")
RsvpsUrl == Url(<< <<"rsvps">> >>, "")
RootUrl == Url(<<>>, "")
IndexUrl == Url(<< <<"index.html">> >>, "")
\* /../missing.css
MissingUrl == Url(<< <<"..">>, <<"missing.css">> >>, "")
\* /..%2fpublic-old%2fsecret.txt
SiblingUrl == Url(<< <<"..", "public-old", "secret.txt">> >>, "")
\* /%2e%2e%2fserver.js
ParentUrl == Url(<< <<"%2e%2e", "server.js">> >>, "")
\* /%72svp?x=1
EncodedRsvpUrl == Url(<< <<"%72svp">> >>, "x=1")
\* /%
MalformedUrl == Url(<< <<"%">> >>, "")

Arrival(method, url, sub) == [method |-> method, url |-> url, sub |-> sub]
Arrivals ==
    { Arrival("POST", RsvpUrl, sub) : sub \in Submissions }
    \cup
    { Arrival("GET", url, NoSubmission) : url \in
        { RsvpsUrl, RootUrl, IndexUrl, MissingUrl, ParentUrl, SiblingUrl } }
    \cup
    { Arrival("OPTIONS", RsvpUrl, NoSubmission),
      Arrival("PUT", RsvpUrl, NoSubmission) }
    \cup
    { Arrival("OPTIONS", EncodedRsvpUrl, NoSubmission),
      Arrival("POST", RsvpsUrl, NoSubmission),
      Arrival("OPTIONS", RootUrl, NoSubmission),
      Arrival("HEAD", IndexUrl, NoSubmission),
      Arrival("GET", MalformedUrl, NoSubmission) }

\* ------------------------------------------------------------ state ------
\* The server (server.js).
VARIABLES
    file,    \* the store file data/rsvps.json: NoFile, Directory, or its text
    disk,    \* the paths of the other regular files of the deployment
    clock,   \* the time new Date() returned last, in milliseconds
    reqs     \* the requests: each one's input, progress and response

\* The page (rsvp.js), once DOMContentLoaded has been handled.
VARIABLES
    currentIndex,     \* let currentIndex
    sliderInterval,   \* let sliderInterval: the id setInterval returned last
    timers,           \* the ids of the interval timers that are active
    backgroundImage,  \* headerEl.style.backgroundImage
    trail             \* the last two events, each with the image shown before it

server == <<file, disk, clock, reqs>>
page == <<currentIndex, sliderInterval, timers, backgroundImage, trail>>
vars == <<file, disk, clock, reqs,
          currentIndex, sliderInterval, timers, backgroundImage, trail>>

NoFile == [k |-> "absent"]
\* The store path names something that is no regular file: reading it and
\* writing it fail with EISDIR.
Directory == [k |-> "dir"]
ReqIds == 1..MaxReq

NoResponse == [status |-> 0, headers |-> <<>>, body |-> NoBody, heads |-> 0]
NoData == [err |-> "pending", data |-> NoBody]
Idle ==
    [ phase |-> "idle", method |-> "", url |-> RootUrl, sub |-> NoSubmission,
      got |-> 0, bodyLen |-> 0, destroyed |-> FALSE,
      res |-> NoResponse, fileData |-> NoData,
      stored |-> FALSE, during |-> {} ]

\* res.writeHead(status, headers); res.end(body)
Respond(res, status, headers, body) ==
    [status |-> status, headers |-> headers, body |-> body, heads |-> res.heads + 1]

\* As JsonHeaders, without the allow-origin header.
JsonHeadersNoOrigin == ("Content-Type" :> "application/json")
JsonHeaders ==
    ("Content-Type" :> "application/json") @@ ("Access-Control-Allow-Origin" :> "*")
TextHeaders == ("Content-Type" :> "text/plain")
\* As PreflightHeaders, without the allow-headers header.
PreflightHeadersNoAllowHeaders ==
    ("Access-Control-Allow-Origin" :> "*")
    @@ ("Access-Control-Allow-Methods" :> "POST, OPTIONS")
PreflightHeaders ==
    ("Access-Control-Allow-Origin" :> "*")
    @@ ("Access-Control-Allow-Methods" :> "POST, OPTIONS")
    @@ ("Access-Control-Allow-Headers" :> "Content-Type")
ErrorJson(msg) == JSONstringify(Obj([error |-> Str(msg)]), 0)
MessageJson(msg) == JSONstringify(Obj([message |-> Str(msg)]), 0)

\* --------------------------------------------------- submit handler ------
\* body, as the 'end' handler sees it: the text of the request once every
\* chunk has been appended.
BodyText(q) ==
    IF q.got = Len(q.sub.chunks) THEN q.sub.text ELSE Junk("partial")

\* As IsValidSubmission, with the trim forgotten.
IsValidSubmissionUntrimmed(data) ==
    /\ Truthy(data)
    /\ data.t = "obj"
    /\ "name" \in DOMAIN data.f
    /\ data.f["name"].t = "str"
    /\ data.f["name"].s # ""

\* !( !data || typeof data.name !== 'string' || data.name.trim() === '' )
IsValidSubmission(data) ==
    /\ Truthy(data)
    /\ data.t = "obj"
    /\ "name" \in DOMAIN data.f
    /\ data.f["name"].t = "str"
    /\ Trim(data.f["name"].s) # ""

\* As LoadRsvps, with the existing file never read.
LoadNothing(f) == Arr(<<>>)

\* let rsvps = []; try { if (existsSync) rsvps = JSON.parse(readFileSync) || [] }
\* catch { rsvps = [] }
LoadRsvps(f) ==
    IF f = NoFile \/ f = Directory THEN Arr(<<>>)
    ELSE LET parsed == JSONparse(f) IN
         IF ~parsed.ok THEN Arr(<<>>)
         ELSE IF Truthy(parsed.v) THEN parsed.v ELSE Arr(<<>>)

\* As MakeRecord, with only the name copied instead of every field.
MakeRecordNameOnly(data, now) ==
    Obj([key \in {"name", "createdAt"} |->
            IF key = "createdAt" THEN Str(ToISOString(now)) ELSE data.f[key]])

\* As MakeRecord, with the spread after createdAt: { createdAt: ..., ...data }
MakeRecordClientWins(data, now) ==
    Obj([key \in DOMAIN data.f \cup {"createdAt"} |->
            IF key \in DOMAIN data.f THEN data.f[key] ELSE Str(ToISOString(now))])

\* { ...data, createdAt: new Date().toISOString() }
MakeRecord(data, now) ==
    Obj([key \in DOMAIN data.f \cup {"createdAt"} |->
            IF key = "createdAt" THEN Str(ToISOString(now)) ELSE data.f[key]])

\* As Push, with unshift in place of push.
Unshift(rsvps, record) ==
    IF rsvps.t = "arr"
    THEN [ok |-> TRUE, v |-> Arr(<<record>> \o rsvps.items)]
    ELSE [ok |-> FALSE, v |-> rsvps]

\* As Push, with rsvps = [record] in place of push.
PushAlone(rsvps, record) ==
    IF rsvps.t = "arr"
    THEN [ok |-> TRUE, v |-> Arr(<<record>>)]
    ELSE [ok |-> FALSE, v |-> rsvps]

\* rsvps.push(record): a TypeError when rsvps is no array.
Push(rsvps, record) ==
    IF rsvps.t = "arr"
    THEN [ok |-> TRUE, v |-> Arr(Append(rsvps.items, record))]
    ELSE [ok |-> FALSE, v |-> rsvps]

\* As Persist, with the new record written in place of the array.
PersistRecord(rsvps) == JSONstringify(rsvps.items[Len(rsvps.items)], 2)

\* fs.writeFileSync(RSVP_STORAGE, JSON.stringify(rsvps, null, 2))
Persist(rsvps) == JSONstringify(rsvps, 2)
\* writeFileSync throws when the path names no regular file.
WriteThrows(f) == f = Directory

\* As Outcome, with the store file emptied when the submission is refused.
OutcomeTruncating(status, body, f, stored) ==
    [status |-> status, body |-> body,
     file |-> IF status = 200 THEN f ELSE EmptyText, stored |-> stored]

\* The outcome of the 'end' handler on a body, a store file and a clock: the
\* response it writes, the store file it leaves, and whether it wrote it.
Outcome(status, body, f, stored) ==
    [status |-> status, body |-> body, file |-> f, stored |-> stored]
SubmitOutcome(body, f, now) ==
    LET data == JSONparse(body) IN
    IF ~data.ok
    THEN Outcome(500, ErrorJson("Internal server error"), f, FALSE)
    ELSE IF ~IsValidSubmission(data.v)
    THEN Outcome(400, ErrorJson("Invalid submission: name is required"), f, FALSE)
    ELSE LET pushed == Push(LoadRsvps(f), MakeRecord(data.v, now)) IN
         IF ~pushed.ok \/ WriteThrows(f)
         THEN Outcome(500, ErrorJson("Internal server error"), f, FALSE)
         ELSE Outcome(200, MessageJson("Thank you for your RSVP!"),
                      Persist(pushed.v), TRUE)

\* An exception that leaves the request callback is caught by nothing: the
\* process ends, and no callback runs after it.
Running == \A i \in ReqIds : reqs[i].phase # "threw"

\* req.on('data', chunk => { body += chunk; if (body.length > 1e6)
\* req.socket.destroy(); }).  A destroyed socket is read no further.
OnData(r) ==
    /\ Running
    /\ reqs[r].phase = "body"
    /\ ~reqs[r].destroyed
    /\ reqs[r].got < Len(reqs[r].sub.chunks)
    /\ LET q == reqs[r]
           len == q.bodyLen + q.sub.chunks[q.got + 1]
       IN reqs' = [reqs EXCEPT ![r] =
                     [q EXCEPT !.got = q.got + 1,
                               !.bodyLen = len,
                               !.destroyed = (len > BODY_CAP)]]
    /\ UNCHANGED <<file, disk, clock>>
    /\ UNCHANGED page

\* req.on('end', ...): emitted once the whole message has been parsed, which
\* destroying the socket in the 'data' handler of its last chunk does not
\* undo.  new Date() returns a time not before the one it returned last.
OnEnd(r) ==
    /\ Running
    /\ reqs[r].phase = "body"
    /\ reqs[r].got = Len(reqs[r].sub.chunks)
    /\ \E now \in clock..MaxClock :
         LET q == reqs[r]
             out == SubmitOutcome(BodyText(q), file, now)
         IN /\ clock' = now
            /\ file' = out.file
            /\ reqs' = [reqs EXCEPT ![r] =
                          [q EXCEPT !.phase = "done",
                                    !.stored = out.stored,
                                    !.res = Respond(q.res, out.status, JsonHeaders, out.body)]]
    /\ UNCHANGED disk
    /\ UNCHANGED page

\* ------------------------------------------------------------ router -----
\* The branch of the request callback a method and a URL take.
Route(method, url) ==
    IF method = "POST" /\ Pathname(url) = "/rsvp" THEN "submit"
    ELSE IF method = "GET" /\ Pathname(url) = "/rsvps" THEN "list"
    ELSE IF method = "OPTIONS" /\ Pathname(url) = "/rsvp" THEN "preflight"
    ELSE IF method = "GET" THEN "static"
    ELSE "unsupported"

InFlight == {i \in ReqIds : reqs[i].phase \in {"body", "reading", "callback"}}

\* http.createServer((req, res) => { ... }): the callback run when the
\* headers of a request have arrived.  Requests take the slots in order.
\* A URIError thrown at line 71 ends the callback before any branch.
Request(r, a) ==
    /\ Running
    /\ reqs[r].phase = "idle"
    /\ \A i \in 1..(r - 1) : reqs[i].phase # "idle"
    /\ LET route == Route(a.method, a.url)
           q == [Idle EXCEPT !.method = a.method, !.url = a.url, !.sub = a.sub,
                              !.during = InFlight]
       IN reqs' = [reqs EXCEPT ![r] =
            IF PathnameThrows(a.url) THEN [q EXCEPT !.phase = "threw"]
            ELSE IF route = "submit" THEN [q EXCEPT !.phase = "body"]
            ELSE IF route = "list" THEN [q EXCEPT !.phase = "reading"]
            ELSE IF route = "preflight"
            THEN [q EXCEPT !.phase = "done",
                           !.res = Respond(q.res, 204, PreflightHeaders, NoBody)]
            ELSE IF route = "static"
            THEN (IF Forbidden(a.url)
                  THEN [q EXCEPT !.phase = "done",
                                 !.res = Respond(q.res, 403, TextHeaders, Plain("Forbidden"))]
                  ELSE [q EXCEPT !.phase = "reading"])
            ELSE [q EXCEPT !.phase = "done",
                           !.res = Respond(q.res, 405, TextHeaders, Plain("Method Not Allowed"))]]
    /\ UNCHANGED <<file, disk, clock>>
    /\ UNCHANGED page

\* As ReadDisk, with the store file never found.
ReadDiskNoStore(path) ==
    IF path = RSVP_STORAGE THEN [err |-> "ENOENT", data |-> NoBody]
    ELSE IF path \in disk THEN [err |-> "none", data |-> Bytes(path)]
    ELSE [err |-> "ENOENT", data |-> NoBody]

\* What fs.readFile finds at a path: the store file, a regular file of the
\* deployment, or nothing.
ReadDisk(path) ==
    IF path = RSVP_STORAGE
    THEN (IF file = NoFile THEN [err |-> "ENOENT", data |-> NoBody]
          ELSE IF file = Directory THEN [err |-> "EISDIR", data |-> NoBody]
          ELSE [err |-> "none", data |-> file])
    ELSE IF path \in disk THEN [err |-> "none", data |-> Bytes(path)]
    ELSE [err |-> "ENOENT", data |-> NoBody]

\* fs.readFile reads the file in the background, some time after the call
\* and before its callback.
FsRead(r) ==
    /\ Running
    /\ reqs[r].phase = "reading"
    /\ LET q == reqs[r]
           path == IF Route(q.method, q.url) = "list" THEN RSVP_STORAGE
                   ELSE ResolvedPath(q.url)
       IN reqs' = [reqs EXCEPT ![r] =
                     [q EXCEPT !.phase = "callback", !.fileData = ReadDisk(path)]]
    /\ UNCHANGED <<file, disk, clock>>
    /\ UNCHANGED page

\* As ListResponse, with a missing file reported like any other read error.
ListResponseNoDefault(res, fileData) ==
    IF fileData.err # "none"
    THEN Respond(res, 500, JsonHeaders, ErrorJson("Unable to read RSVPs"))
    ELSE Respond(res, 200, JsonHeaders,
                 IF fileData.data = EmptyText THEN Doc(Arr(<<>>), 0) ELSE fileData.data)

\* The response of the callback of fs.readFile(RSVP_STORAGE, 'utf8', ...).
ListResponse(res, fileData) ==
    IF fileData.err = "ENOENT"
    THEN Respond(res, 200, JsonHeaders, Doc(Arr(<<>>), 0))
    ELSE IF fileData.err # "none"
    THEN Respond(res, 500, JsonHeaders, ErrorJson("Unable to read RSVPs"))
    ELSE Respond(res, 200, JsonHeaders,
                 IF fileData.data = EmptyText THEN Doc(Arr(<<>>), 0) ELSE fileData.data)

ListCallback(r) ==
    /\ Running
    /\ reqs[r].phase = "callback"
    /\ Route(reqs[r].method, reqs[r].url) = "list"
    /\ reqs' = [reqs EXCEPT ![r] =
                  [@ EXCEPT !.phase = "done",
                            !.res = ListResponse(reqs[r].res, reqs[r].fileData)]]
    /\ UNCHANGED <<file, disk, clock>>
    /\ UNCHANGED page

\* The response of the callback of fs.readFile(resolvedPath, ...).
StaticResponse(res, fileData, comps) ==
    IF fileData.err # "none"
    THEN Respond(res, 404, TextHeaders, Plain("Not Found"))
    ELSE Respond(res, 200, ("Content-Type" :> getContentType(comps)), fileData.data)

StaticCallback(r) ==
    /\ Running
    /\ reqs[r].phase = "callback"
    /\ Route(reqs[r].method, reqs[r].url) = "static"
    /\ reqs' = [reqs EXCEPT ![r] =
                  [@ EXCEPT !.phase = "done",
                            !.res = StaticResponse(reqs[r].res, reqs[r].fileData,
                                                   ResolvedComps(reqs[r].url))]]
    /\ UNCHANGED <<file, disk, clock>>
    /\ UNCHANGED page

\* ------------------------------------------------------ hero slider ------
\* const images = [...]; JavaScript indexes it from 0.
images ==
    << "assets/images/hero.jpg", "assets/images/image1.jpg",
       "assets/images/image4.jpg" >>

\* JavaScript's %: the result has the sign of the dividend.
Rem(a, n) == IF a >= 0 THEN a % n ELSE -((-a) % n)

\* headerEl.style.backgroundImage = `url('${images[index]}')`
setHeroBackground(index) ==
    IF index \in 0..(Len(images) - 1)
    THEN "url('" \o images[index + 1] \o "')"
    ELSE "url('undefined')"

\* (currentIndex + 1) % images.length
NextIndex(index) == Rem(index + 1, Len(images))

\* As PrevIndex, with images.length not added before the remainder.
PrevIndexNoWrap(index) == Rem(index - 1, Len(images))

\* (currentIndex - 1 + images.length) % images.length
PrevIndex(index) == Rem(index - 1 + Len(images), Len(images))

nextImage ==
    /\ currentIndex' = NextIndex(currentIndex)
    /\ backgroundImage' = setHeroBackground(NextIndex(currentIndex))

prevImage ==
    /\ currentIndex' = PrevIndex(currentIndex)
    /\ backgroundImage' = setHeroBackground(PrevIndex(currentIndex))

\* clearInterval(sliderInterval); sliderInterval = setInterval(nextImage, 10000)
\* setInterval returns an id it has not returned before.
RestartInterval ==
    /\ sliderInterval < MaxTimers
    /\ sliderInterval' = sliderInterval + 1
    /\ timers' = (timers \ {sliderInterval}) \cup {sliderInterval + 1}

\* The event is noted with the image that was shown when it happened.
Note(event) ==
    LET all == Append(trail, [event |-> event, shown |-> backgroundImage])
    IN trail' = IF Len(all) > 2 THEN Tail(all) ELSE all

\* leftBtn.addEventListener('click', ...)
LeftClick ==
    /\ prevImage
    /\ RestartInterval
    /\ Note("left")
    /\ UNCHANGED server

\* rightBtn.addEventListener('click', ...)
RightClick ==
    /\ nextImage
    /\ RestartInterval
    /\ Note("right")
    /\ UNCHANGED server

\* An active interval timer runs its callback, nextImage.
IntervalFires(t) ==
    /\ t \in timers
    /\ nextImage
    /\ Note("timer")
    /\ UNCHANGED <<sliderInterval, timers>>
    /\ UNCHANGED server

\* ---------------------------------------------------- specifications -----
\* The page after its DOMContentLoaded handler: the first image shown, one
\* interval timer set.
InitPage ==
    /\ currentIndex = 0
    /\ sliderInterval = 1
    /\ timers = {1}
    /\ backgroundImage = setHeroBackground(0)
    /\ trail = <<>>

\* A fresh deployment: no store file, no request yet.
Init ==
    /\ file = NoFile
    /\ disk = DiskFiles
    /\ clock = 0
    /\ reqs = [r \in ReqIds |-> Idle]
    /\ InitPage

Next ==
    \/ \E r \in ReqIds, a \in Arrivals : Request(r, a)
    \/ \E r \in ReqIds : OnData(r)
    \/ \E r \in ReqIds : OnEnd(r)
    \/ \E r \in ReqIds : FsRead(r)
    \/ \E r \in ReqIds : ListCallback(r)
    \/ \E r \in ReqIds : StaticCallback(r)

Spec == Init /\ [][Next]_vars

\* A deployment whose store file was left by something else: absent, empty,
\* not JSON, JSON that is no array, an array, or no regular file; and the
\* requests of the two routes that read or write the store.
OldRecord == Obj([name |-> Str("Old"), createdAt |-> Str("1969")])
PriorFiles ==
    { NoFile, EmptyText, Junk("[{"), Doc(Null, 0), Doc(Obj(<<>>), 0),
      Doc(Arr(<<OldRecord>>), 2), Directory }
InitPrior ==
    /\ file \in PriorFiles
    /\ disk = DiskFiles
    /\ clock = 0
    /\ reqs = [r \in ReqIds |-> Idle]
    /\ InitPage
StoreArrivals ==
    { a \in Arrivals :
        ~PathnameThrows(a.url) /\ Route(a.method, a.url) \in {"submit", "list"} }
NextStore ==
    \/ \E r \in ReqIds, a \in StoreArrivals : Request(r, a)
    \/ \E r \in ReqIds : OnData(r)
    \/ \E r \in ReqIds : OnEnd(r)
    \/ \E r \in ReqIds : FsRead(r)
    \/ \E r \in ReqIds : ListCallback(r)
SpecPrior == InitPrior /\ [][NextStore]_vars

\* A fresh deployment whose asset root has its default document, or lacks it,
\* and the requests of the static route.
AssetStates == { DiskFiles, DiskFiles \ {"/app/public/index.html"} }
InitAssets ==
    /\ file = NoFile
    /\ disk \in AssetStates
    /\ clock = 0
    /\ reqs = [r \in ReqIds |-> Idle]
    /\ InitPage
StaticArrivals ==
    { a \in Arrivals :
        ~PathnameThrows(a.url) /\ Route(a.method, a.url) = "static" }
NextAssets ==
    \/ \E r \in ReqIds, a \in StaticArrivals : Request(r, a)
    \/ \E r \in ReqIds : FsRead(r)
    \/ \E r \in ReqIds : StaticCallback(r)
SpecAssets == InitAssets /\ [][NextAssets]_vars

\* The page alone: clicks on the two buttons and the interval timer.
NextPage ==
    \/ LeftClick
    \/ RightClick
    \/ \E t \in timers : IntervalFires(t)
SpecPage == Init /\ [][NextPage]_vars

\* ------------------------------------------------ vocabulary of the claims
IsSubmit(q) == q.phase # "idle" /\ q.method = "POST" /\ Pathname(q.url) = "/rsvp"
IsList(q) == q.phase # "idle" /\ q.method = "GET" /\ Pathname(q.url) = "/rsvps"
Answered(q) == q.phase = "done"

\* The requests that were answered before request r arrived.
Before(r) == (1..(r - 1)) \ reqs[r].during
\* Two requests were in progress at the same time.
Overlap(p, q) == p \in reqs[q].during \/ q \in reqs[p].during
\* No request arrived while another was in progress.
Sequential == \A r \in ReqIds : reqs[r].during = {}

\* A text that parses to a JSON object with a string name that is not blank.
NonBlank(str) == \E i \in 1..Len(str) : SubSeq(str, i, i) # " "
HasUsableName(text) ==
    /\ text.k = "doc"
    /\ text.v.t = "obj"
    /\ "name" \in DOMAIN text.v.f
    /\ text.v.f["name"].t = "str"
    /\ NonBlank(text.v.f["name"].s)
\* A text that parses as JSON to anything else.
ParsesUnusable(text) == text.k = "doc" /\ ~HasUsableName(text)

\* The records a text holds: the elements of its JSON array, none otherwise.
IsArrayText(text) == text.k = "doc" /\ text.v.t = "arr"
Records(text) == IF IsArrayText(text) THEN text.v.items ELSE <<>>

\* YYYY-MM-DDTHH:mm:ss.sssZ
WellFormedTimestamp(v) ==
    /\ v.t = "str"
    /\ Len(v.s) = 24
    /\ SubSeq(v.s, 5, 5) = "-" /\ SubSeq(v.s, 8, 8) = "-"
    /\ SubSeq(v.s, 11, 11) = "T" /\ SubSeq(v.s, 24, 24) = "Z"

\* A record that carries the fields of a submitted object, each with its
\* submitted value, and a createdAt timestamp (the one field whose value is
\* the server's).
Carries(rec, text) ==
    /\ rec.t = "obj"
    /\ DOMAIN rec.f = DOMAIN text.v.f \cup {"createdAt"}
    /\ \A key \in DOMAIN text.v.f \ {"createdAt"} : rec.f[key] = text.v.f[key]
    /\ WellFormedTimestamp(rec.f["createdAt"])

IsPrefix(s, t) == Len(s) <= Len(t) /\ SubSeq(t, 1, Len(s)) = s

ThankYou == Doc(Obj([message |-> Str("Thank you for your RSVP!")]), 0)
NameRequired == Doc(Obj([error |-> Str("Invalid submission: name is required")]), 0)

\* A submission with a usable name whose body stayed within the cap.
ValidSubmit(q) == IsSubmit(q) /\ HasUsableName(q.sub.text) /\ ~q.destroyed

\* ------------------------------------------------------------ claims -----

\* C1: after N valid submissions made one after another on a fresh
\* deployment, with no request overlapping another, a listing returns 200
\* with exactly N records, the i-th carrying the fields of the i-th
\* submission.
C1_SequentialListing ==
    \A g \in ReqIds :
        ( /\ Sequential
          /\ IsList(reqs[g]) /\ Answered(reqs[g])
          /\ \A p \in 1..(g - 1) : ValidSubmit(reqs[p]) )
        => /\ reqs[g].res.status = 200
           /\ Len(Records(reqs[g].res.body)) = g - 1
           /\ \A p \in 1..(g - 1) :
                Carries(Records(reqs[g].res.body)[p], reqs[p].sub.text)

\* Two different submissions, then a listing that shows both.
C1_Witness ==
    /\ Sequential
    /\ ValidSubmit(reqs[1]) /\ ValidSubmit(reqs[2])
    /\ reqs[1].sub.text # reqs[2].sub.text
    /\ IsList(reqs[3]) /\ Answered(reqs[3])
    /\ Len(Records(reqs[3].res.body)) = 2

\* C2: a submission whose body parses to an object with a string name that
\* is not blank (and stays within the cap) is answered 200 with the
\* thank-you message, and every listing requested after that answer returns
\* 200 with a record carrying its fields and a createdAt timestamp.
C2_ValidAccepted ==
    \A p \in ReqIds :
        (ValidSubmit(reqs[p]) /\ Answered(reqs[p]))
        => /\ reqs[p].res.status = 200
           /\ reqs[p].res.body = ThankYou
           /\ \A g \in ReqIds :
                (IsList(reqs[g]) /\ Answered(reqs[g]) /\ p \in Before(g))
                => /\ reqs[g].res.status = 200
                   /\ \E i \in 1..Len(Records(reqs[g].res.body)) :
                        Carries(Records(reqs[g].res.body)[i], reqs[p].sub.text)

\* A submission with a field besides the name, answered, then listed.
C2_Witness ==
    \E p, g \in ReqIds :
        /\ ValidSubmit(reqs[p]) /\ Answered(reqs[p])
        /\ reqs[p].sub.text = AdaDoc
        /\ IsList(reqs[g]) /\ Answered(reqs[g]) /\ p \in Before(g)
        /\ Len(Records(reqs[g].res.body)) >= 1

\* C3: the 'end' handler of a submission whose body parses as JSON, but not
\* to an object with a string name that is not blank, answers 400 with the
\* error 'Invalid submission: name is required' and leaves the store file as
\* it was.
C3_InvalidRejected ==
    [][ \A r \in ReqIds :
            ( /\ IsSubmit(reqs[r])
              /\ reqs[r].phase = "body" /\ reqs'[r].phase = "done"
              /\ ParsesUnusable(reqs[r].sub.text) )
            => /\ reqs'[r].res.status = 400
               /\ reqs'[r].res.body = NameRequired
               /\ file' = file ]_vars

\* A whitespace-only name rejected while the store holds a record.
C3_Witness ==
    \E r \in ReqIds :
        /\ IsSubmit(reqs[r]) /\ Answered(reqs[r])
        /\ reqs[r].sub.text = Doc(Obj([name |-> Str("  ")]), 0)
        /\ reqs[r].res.status = 400
        /\ Len(Records(file)) >= 1

\* C4: a submission whose body does not parse as JSON is answered 400.
C4_MalformedIs400 ==
    \A r \in ReqIds :
        ( /\ IsSubmit(reqs[r]) /\ Answered(reqs[r])
          /\ ~reqs[r].destroyed
          /\ reqs[r].sub.text.k = "junk" )
        => reqs[r].res.status = 400

\* C5: whatever the store file held before (nothing, the empty text, text
\* that is no JSON, JSON that is no array, or an array), the 'end' handler of
\* a valid submission answers 200 and leaves a file holding a JSON array
\* whose last element is the new record.
C5_PriorStoreNeverFails ==
    [][ \A r \in ReqIds :
            ( /\ ValidSubmit(reqs[r])
              /\ reqs[r].phase = "body" /\ reqs'[r].phase = "done" )
            => /\ reqs'[r].res.status = 200
               /\ IsArrayText(file')
               /\ Len(Records(file')) >= 1
               /\ Carries(Records(file')[Len(Records(file'))], reqs[r].sub.text) ]_vars

\* C6 (as amended): two valid submissions that were in progress at the same
\* time and were both answered 200 are both in the store, as two records:
\* the 'end' handler reads, appends and writes in one step, in every
\* interleaving of the requests' events.
C6_NoLostRecord ==
    \A p, q \in ReqIds :
        ( /\ p # q /\ Overlap(p, q)
          /\ IsSubmit(reqs[p]) /\ reqs[p].res.status = 200
          /\ IsSubmit(reqs[q]) /\ reqs[q].res.status = 200 )
        => \E i, j \in 1..Len(Records(file)) :
              /\ i # j
              /\ Carries(Records(file)[i], reqs[p].sub.text)
              /\ Carries(Records(file)[j], reqs[q].sub.text)

\* Two overlapping submissions, both answered 200.
C6_Witness ==
    \E p, q \in ReqIds :
        /\ p # q /\ Overlap(p, q)
        /\ ValidSubmit(reqs[p]) /\ reqs[p].res.status = 200
        /\ ValidSubmit(reqs[q]) /\ reqs[q].res.status = 200
        /\ reqs[p].got = 2 /\ reqs[q].during = {p}
        /\ Len(Records(file)) = 2

\* C6 (as claimed): two simultaneous valid submissions that are both
\* answered 200 leave only one of their two records in the store.
C6_LostRecord ==
    \A p, q \in ReqIds :
        ( /\ p # q /\ Overlap(p, q)
          /\ IsSubmit(reqs[p]) /\ reqs[p].res.status = 200
          /\ IsSubmit(reqs[q]) /\ reqs[q].res.status = 200 )
        => ~ \E i, j \in 1..Len(Records(file)) :
                /\ i # j
                /\ Carries(Records(file)[i], reqs[p].sub.text)
                /\ Carries(Records(file)[j], reqs[q].sub.text)

\* C7: from a fresh deployment, the store file is absent or holds a JSON
\* array, whatever requests were made, answered, rejected or failed.
C7_StoreIsArray == file = NoFile \/ IsArrayText(file)

\* The store holds a record beside requests answered 400 and 500.
C7_Witness ==
    /\ Len(Records(file)) = 1
    /\ \E r \in ReqIds : reqs[r].res.status = 400
    /\ \E r \in ReqIds : reqs[r].res.status = 500

\* C8: the records the store holds before a step are a prefix of those it
\* holds after it.
C8_StoreOnlyGrows == [][IsPrefix(Records(file), Records(file'))]_vars

\* The store has grown twice.
C8_Witness ==
    /\ Len(Records(file)) = 2
    /\ Records(file)[1] # Records(file)[2]

\* C9: a GET whose path resolves to a location that is not the asset root
\* or below it is answered 403.
OutsideRoot(url) == ~IsPrefix(PUBLIC_DIR_COMPS, ResolvedComps(url))
C9_Outside403 ==
    \A r \in ReqIds :
        ( /\ Answered(reqs[r])
          /\ reqs[r].method = "GET"
          /\ Pathname(reqs[r].url) # "/rsvps"
          /\ OutsideRoot(reqs[r].url) )
        => /\ reqs[r].res.status = 403
           /\ reqs[r].res.body.k # "bytes"

\* C10: a submission whose accumulated body has exceeded the cap is never
\* completed by the 'end' handler: it gets no response and no record of it
\* is written to the store.
C10_OverCapDropped ==
    \A r \in ReqIds :
        (IsSubmit(reqs[r]) /\ reqs[r].bodyLen > BODY_CAP)
        => /\ reqs[r].res.status = 0
           /\ ~reqs[r].stored

\* ------------------------------------- vocabulary of the later claims ----
Arrived(q) == q.phase # "idle"
Header(q, name) == IF name \in DOMAIN q.res.headers THEN q.res.headers[name] ELSE ""
EmptyArray == Doc(Arr(<<>>), 0)
UnableToRead == Doc(Obj([error |-> Str("Unable to read RSVPs")]), 0)

\* The request is with the submit handler, the list handler or the static
\* handler: waiting for one of its callbacks, or answered the way it answers.
WithSubmit(q) ==
    \/ q.phase = "body"
    \/ /\ Answered(q) /\ q.res.status \in {200, 400, 500}
       /\ Header(q, "Content-Type") = "application/json"
WithList(q) ==
    \/ q.phase \in {"reading", "callback"}
    \/ /\ Answered(q) /\ q.res.status \in {200, 500}
       /\ Header(q, "Content-Type") = "application/json"
WithStatic(q) ==
    \/ q.phase \in {"reading", "callback"}
    \/ Answered(q) /\ q.res.status \in {200, 403, 404}
WithPreflight(q) == Answered(q) /\ q.res.status = 204
Refused405(q) ==
    /\ Answered(q) /\ q.res.status = 405
    /\ q.res.body = Plain("Method Not Allowed")
    /\ Header(q, "Content-Type") = "text/plain"

\* C11: every request that has arrived is with exactly the handler its
\* method and normalized path name: POST /rsvp with submit, GET /rsvps with
\* list, OPTIONS /rsvp with preflight, any other GET with static, and every
\* other request is answered 405 'Method Not Allowed' as plain text.
C11_Dispatch ==
    \A r \in ReqIds :
        Arrived(reqs[r]) =>
            LET q == reqs[r]
                path == Pathname(q.url)
            IN IF q.method = "POST" /\ path = "/rsvp" THEN WithSubmit(q)
               ELSE IF q.method = "GET" /\ path = "/rsvps" THEN WithList(q)
               ELSE IF q.method = "OPTIONS" /\ path = "/rsvp" THEN WithPreflight(q)
               ELSE IF q.method = "GET" THEN WithStatic(q)
               ELSE Refused405(q)

\* C12: on a fresh deployment, while the store file is absent every listing
\* answered so far returned 200 with the body [], whatever requests were
\* refused or failed before it; and the file is absent exactly as long as no
\* submission has been answered 200.
C12_FreshListingEmpty ==
    /\ file = NoFile =>
          \A g \in ReqIds :
              (IsList(reqs[g]) /\ Answered(reqs[g]))
              => reqs[g].res.status = 200 /\ reqs[g].res.body = EmptyArray
    /\ file = NoFile <=>
          ~ \E p \in ReqIds : IsSubmit(reqs[p]) /\ reqs[p].res.status = 200

\* A listing answered after a refused and a failed submission, the store
\* file still absent.
C12_Witness ==
    /\ file = NoFile
    /\ IsSubmit(reqs[1]) /\ reqs[1].res.status = 400
    /\ IsSubmit(reqs[2]) /\ reqs[2].res.status = 500
    /\ IsList(reqs[3]) /\ Answered(reqs[3]) /\ reqs[3].during = {}

\* No submission was stored since request g arrived: the store file is what
\* it was while g was in progress.
Quiet(g) ==
    \A p \in ReqIds \ {g} :
        (p > g \/ p \in reqs[g].during) => ~reqs[p].stored

\* C13 (as amended): a listing returns 200 with the raw contents of the
\* store file when the file exists, is readable and is not empty; 200 with
\* the body [] when the file does not exist or is empty; 500 with a JSON
\* error body when reading fails otherwise.
C13_ListingAsRead ==
    \A g \in ReqIds :
        (IsList(reqs[g]) /\ Answered(reqs[g]) /\ Quiet(g)) =>
            IF file = NoFile \/ file = EmptyText
            THEN reqs[g].res.status = 200 /\ reqs[g].res.body = EmptyArray
            ELSE IF file = Directory
            THEN reqs[g].res.status = 500 /\ reqs[g].res.body = UnableToRead
            ELSE reqs[g].res.status = 200 /\ reqs[g].res.body = file

\* A listing of a store file that exists and is empty.
C13_Witness ==
    \E g \in ReqIds :
        /\ IsList(reqs[g]) /\ Answered(reqs[g]) /\ Quiet(g)
        /\ file = EmptyText
        /\ reqs[g].res.body = EmptyArray

\* C13 (as claimed): a listing returns 200 with the raw contents of the
\* store file whenever the file exists and is readable, the body [] only
\* when the file does not exist, and 500 when reading fails otherwise.
C13_ListingRaw ==
    \A g \in ReqIds :
        (IsList(reqs[g]) /\ Answered(reqs[g]) /\ Quiet(g)) =>
            IF file = NoFile
            THEN reqs[g].res.status = 200 /\ reqs[g].res.body = EmptyArray
            ELSE IF file = Directory
            THEN reqs[g].res.status = 500 /\ reqs[g].res.body = UnableToRead
            ELSE reqs[g].res.status = 200 /\ reqs[g].res.body = file

\* C14: every response of the submit handler, 200, 400 or 500, carries the
\* header Access-Control-Allow-Origin: *.
C14_SubmitAllowOrigin ==
    \A r \in ReqIds :
        (IsSubmit(reqs[r]) /\ Answered(reqs[r]))
        => /\ reqs[r].res.status \in {200, 400, 500}
           /\ Header(reqs[r], "Access-Control-Allow-Origin") = "*"

\* Three submissions answered 200, 400 and 500.
C14_Witness ==
    \E a, b, c \in ReqIds :
        /\ IsSubmit(reqs[a]) /\ reqs[a].res.status = 200
        /\ IsSubmit(reqs[b]) /\ reqs[b].res.status = 400
        /\ IsSubmit(reqs[c]) /\ reqs[c].res.status = 500

\* C15: an OPTIONS request whose normalized path is /rsvp is answered in
\* the request callback, whatever the store holds: 204, no body, and exactly
\* the headers Access-Control-Allow-Origin: *, Access-Control-Allow-Methods:
\* POST, OPTIONS and Access-Control-Allow-Headers: Content-Type.
IsPreflight(q) == Arrived(q) /\ q.method = "OPTIONS" /\ Pathname(q.url) = "/rsvp"
C15_Preflight ==
    \A r \in ReqIds :
        IsPreflight(reqs[r])
        => /\ Answered(reqs[r])
           /\ reqs[r].res.status = 204
           /\ reqs[r].res.body = NoBody
           /\ DOMAIN reqs[r].res.headers =
                { "Access-Control-Allow-Origin", "Access-Control-Allow-Methods",
                  "Access-Control-Allow-Headers" }
           /\ Header(reqs[r], "Access-Control-Allow-Origin") = "*"
           /\ Header(reqs[r], "Access-Control-Allow-Methods") = "POST, OPTIONS"
           /\ Header(reqs[r], "Access-Control-Allow-Headers") = "Content-Type"

\* A preflight before the store file exists and one after, the second with
\* an encoded path and a query.
C15_Witness ==
    /\ IsPreflight(reqs[1])
    /\ IsSubmit(reqs[2]) /\ reqs[2].stored
    /\ IsPreflight(reqs[3]) /\ reqs[3].url = EncodedRsvpUrl
    /\ reqs[3].during = {}

\* C16: a GET for a path inside the asset root that names no file is
\* answered 404 'Not Found'; and in each state of the asset root, GET / and
\* GET /index.html are answered with the same status, content type and body.
InsideRoot(url) == IsPrefix(PUBLIC_DIR_COMPS, ResolvedComps(url))
IsStatic(q) == Arrived(q) /\ q.method = "GET" /\ Pathname(q.url) # "/rsvps"
C16_MissingAndRoot ==
    /\ \A r \in ReqIds :
          ( /\ IsStatic(reqs[r]) /\ Answered(reqs[r])
            /\ InsideRoot(reqs[r].url)
            /\ ResolvedPath(reqs[r].url) \notin disk )
          => /\ reqs[r].res.status = 404
             /\ reqs[r].res.body = Plain("Not Found")
    /\ \A r, i \in ReqIds :
          ( /\ IsStatic(reqs[r]) /\ Answered(reqs[r]) /\ Pathname(reqs[r].url) = "/"
            /\ IsStatic(reqs[i]) /\ Answered(reqs[i])
            /\ Pathname(reqs[i].url) = "/index.html" )
          => /\ reqs[r].res.status = reqs[i].res.status
             /\ Header(reqs[r], "Content-Type") = Header(reqs[i], "Content-Type")
             /\ reqs[r].res.body = reqs[i].res.body

\* In an asset root without its default document: GET / and GET /index.html
\* both answered 404, as is a GET for another missing file.
C16_Witness ==
    \E r, i, m \in ReqIds :
        /\ "/app/public/index.html" \notin disk
        /\ reqs[r].url = RootUrl /\ reqs[r].res.status = 404
        /\ reqs[i].url = IndexUrl /\ reqs[i].res.status = 404
        /\ reqs[m].url = MissingUrl /\ reqs[m].res.status = 404

\* C17: no request is answered twice, and every request whose handling is
\* over (no callback of it is still to run) has been answered exactly once.
Over(q) == q.phase \notin {"idle", "body", "reading", "callback"}
C17_OneResponse ==
    \A r \in ReqIds :
        /\ reqs[r].res.heads <= 1
        /\ Over(reqs[r]) => reqs[r].res.heads = 1

\* C18: a step that changes the store file is the 'end' handler of a POST
\* /rsvp answering 200: every other step (a listing, a preflight, a static
\* GET, a 405, a refused or failed submission) leaves the file as it was,
\* absent included.
C18_OnlyAcceptedWrites ==
    [][ file' # file =>
          \E r \in ReqIds :
              /\ IsSubmit(reqs[r])
              /\ reqs[r].phase = "body" /\ reqs'[r].phase = "done"
              /\ reqs'[r].res.status = 200 ]_vars

\* One record stored, beside a refused submission and an answered listing.
C18_Witness ==
    /\ Len(Records(file)) = 1
    /\ \E r \in ReqIds : IsSubmit(reqs[r]) /\ reqs[r].res.status = 400
    /\ \E g \in ReqIds : IsList(reqs[g]) /\ Answered(reqs[g])

\* C19: the record the 'end' handler appends has the fields of the
\* submission, each with its submitted value, except createdAt, which is the
\* time the server read in that handler, whether or not the submission had a
\* createdAt of its own.
C19_ServerTimestamp ==
    [][ \A r \in ReqIds :
            ( /\ IsSubmit(reqs[r])
              /\ reqs[r].phase = "body" /\ reqs'[r].phase = "done"
              /\ reqs'[r].res.status = 200 )
            => LET rec == Records(file')[Len(Records(file'))]
                   sent == reqs[r].sub.text.v.f
               IN /\ Len(Records(file')) = Len(Records(file)) + 1
                  /\ DOMAIN rec.f = DOMAIN sent \cup {"createdAt"}
                  /\ rec.f["createdAt"] = Str(ToISOString(clock'))
                  /\ \A key \in DOMAIN sent \ {"createdAt"} : rec.f[key] = sent[key]
      ]_vars

\* A stored record of the submission that had a createdAt of its own, after
\* the clock has advanced.
C19_Witness ==
    \E i \in 1..Len(Records(file)) :
        /\ Records(file)[i].f["name"] = Str("Eve")
        /\ Records(file)[i].f["createdAt"] = Str(ToISOString(1))

\* C20: currentIndex is an index of images; when the last two events were a
\* right click and then a left click, the image shown is the one shown
\* before the right click; and exactly one interval timer is active, the one
\* sliderInterval names.
C20_Slider ==
    /\ currentIndex \in 0..(Len(images) - 1)
    /\ ( /\ Len(trail) = 2
         /\ trail[1].event = "right" /\ trail[2].event = "left" )
       => backgroundImage = trail[1].shown
    /\ Cardinality(timers) = 1
    /\ timers = {sliderInterval}

\* A right click on the last image, wrapping to the first, then a left
\* click, wrapping back.
C20_Witness ==
    /\ Len(trail) = 2
    /\ trail[1].event = "right" /\ trail[2].event = "left"
    /\ currentIndex = Len(images) - 1
    /\ backgroundImage = setHeroBackground(Len(images) - 1)

====
